---------------------------- MODULE Spec2Model ----------------------------
(***************************************************************************)
(* The movie database API client (movies-api.server) and the view layer   *)
(* that calls it (MoviesOverview).                                         *)
(*                                                                         *)
(* A JavaScript value is a record [t |-> tag, v |-> content]:              *)
(*   undefined, null, bool, num (integers), str, arr (a sequence of        *)
(*   values) and obj (a function from property names to values).           *)
(* An async function is one process per call; its steps are the segments   *)
(* between its awaits: the call itself (up to fetch), the settling of      *)
(* fetch, and the settling of response.json() together with the            *)
(* synchronous classification that follows it.                             *)
(***************************************************************************)
EXTENDS Integers, Sequences, FiniteSets, TLC

VARIABLES
    envApiKey,    \* import.meta.env.VITE_MOVIES_API_KEY, as the host supplies it
    moduleState,  \* "unloaded" | "loaded" | "failed": evaluation of the API module
    apiKey,       \* the module constant apiKey (undefined until the module is loaded)
    harness,      \* the host: "client" (one caller, any payload) or "view" (the view layer)
    calls,        \* one record per caller: the call it has in progress or finished
    console       \* what console.error has printed, in order

vars == <<envApiKey, moduleState, apiKey, harness, calls, console>>

---------------------------------------------------------------------------
(* Bounds of the model.                                                    *)

\* Longest array a payload holds (results, the language catalog).
MaxLen == 2
\* Callers the view layer has in flight together.
MaxInFlight == 2

---------------------------------------------------------------------------
(* JavaScript values.                                                      *)

Undefined == [t |-> "undefined"]
Null      == [t |-> "null"]
Bool(b)   == [t |-> "bool", v |-> b]
Num(n)    == [t |-> "num", v |-> n]
Str(s)    == [t |-> "str", v |-> s]
Arr(s)    == [t |-> "arr", v |-> s]
Obj(f)    == [t |-> "obj", v |-> f]

\* The empty property map.
NoProps == [k \in {} |-> Null]

\* !!x
Truthy(x) ==
    CASE x.t \in {"undefined", "null"} -> FALSE
      [] x.t = "bool" -> x.v
      [] x.t = "num"  -> x.v # 0
      [] x.t = "str"  -> x.v # ""
      [] OTHER        -> TRUE

\* typeof x
TypeOf(x) ==
    CASE x.t = "undefined" -> "undefined"
      [] x.t = "bool" -> "boolean"
      [] x.t = "num"  -> "number"
      [] x.t = "str"  -> "string"
      [] OTHER        -> "object"

\* Array.isArray(x)
IsArray(x) == x.t = "arr"

\* (k in x), for x that is not a primitive; an array has "length" and no
\* other named property.
In(k, x) ==
    CASE x.t = "obj" -> k \in DOMAIN x.v
      [] x.t = "arr" -> k = "length"
      [] OTHER       -> FALSE

\* x[k], undefined when the property is absent.
Get(x, k) ==
    IF x.t = "obj" /\ k \in DOMAIN x.v THEN x.v[k] ELSE Undefined

\* The string a template literal `${x}` gives.
RECURSIVE ToJSString(_)
ToJSString(x) ==
    CASE x.t = "undefined" -> "undefined"
      [] x.t = "null" -> "null"
      [] x.t = "bool" -> IF x.v THEN "true" ELSE "false"
      [] x.t = "num"  -> ToString(x.v)
      [] x.t = "str"  -> x.v
      [] x.t = "arr"  ->
            LET Item(i) == IF x.v[i].t \in {"undefined", "null"} THEN ""
                           ELSE ToJSString(x.v[i])
                Join[i \in 0..Len(x.v)] ==
                    IF i = 0 THEN ""
                    ELSE IF i = 1 THEN Item(1)
                    ELSE Join[i - 1] \o "," \o Item(i)
            IN  Join[Len(x.v)]
      [] OTHER        -> "[object Object]"

\* Whether string sub occurs in string s.
Contains(s, sub) ==
    \E i \in 1..(Len(s) - Len(sub) + 1) : SubSeq(s, i, i + Len(sub) - 1) = sub

\* All sequences over S of length at most n.
SeqUpTo(S, n) == UNION {[1..k -> S] : k \in 0..n}

---------------------------------------------------------------------------
(* movies-api.server: module constants and the type guards.                *)

baseUrl == "https://api.themoviedb.org/3"

\* Fault: the condition without its typeof test.
ApiKeyTruthyOnly(key) == Truthy(key)

\* The condition tiny-invariant is given: envApiKey && typeof envApiKey === "string".
ApiKeyCondition(key) == Truthy(key) /\ TypeOf(key) = "string"

isErrorResponse(data) ==
    /\ Truthy(data)
    /\ TypeOf(data) = "object"
    /\ In("status_code", data)
    /\ In("status_message", data)

isMoviesData(data) ==
    /\ Truthy(data)
    /\ TypeOf(data) = "object"
    /\ In("results", data)
    /\ IsArray(Get(data, "results"))

\* Fault: the guard without its two tests of base_url.
IsConfigurationWithImagesOnly(data) ==
    /\ Truthy(data)
    /\ TypeOf(data) = "object"
    /\ In("images", data)
    /\ Truthy(Get(data, "images"))
    /\ TypeOf(Get(data, "images")) = "object"

isMoviesAPIConfiguration(data) ==
    /\ Truthy(data)
    /\ TypeOf(data) = "object"
    /\ In("images", data)
    /\ Truthy(Get(data, "images"))
    /\ TypeOf(Get(data, "images")) = "object"
    /\ In("base_url", Get(data, "images"))
    /\ TypeOf(Get(Get(data, "images"), "base_url")) = "string"

isLanguageArray(data) ==
    /\ Truthy(data)
    /\ IsArray(data)
    /\ \A i \in 1..Len(data.v) :
          LET item == data.v[i]
          IN  /\ Truthy(item)
              /\ TypeOf(item) = "object"
              /\ In("english_name", item)
              /\ In("iso_639_1", item)
              /\ In("name", item)

\* new Error(message)
Error(message) == [name |-> "Error", message |-> message]

\* The outcome of the synchronous tail of a call: what it returns or throws
\* and what it prints with console.error on the way.
Return(value)  == [kind |-> "return", value |-> value, log |-> <<>>]
Throw(error)   == [kind |-> "throw", error |-> error, log |-> <<>>]
LogThenThrow(entry, error) == [kind |-> "throw", error |-> error, log |-> <<entry>>]

\* Fault: the message without the status code.
StatusMessageOnly(data) == ToJSString(Get(data, "status_message"))

\* `${data.status_code}: ${data.status_message}`
APIErrorMessage(data) ==
    ToJSString(Get(data, "status_code")) \o ": " \o ToJSString(Get(data, "status_message"))

\* languageCode = "en-US": the default applies when the caller passes no
\* second argument.
LanguageCode(args) == IF Len(args) >= 2 THEN args[2] ELSE "en-US"

\* Fault: the URL without its language parameter.
MoviesUrlNoLanguage(args) ==
    baseUrl \o "/movie/" \o args[1] \o "?api_key=" \o ToJSString(apiKey)

\* The request URL of fetchMovies.
MoviesUrl(args) ==
    baseUrl \o "/movie/" \o args[1] \o "?api_key=" \o ToJSString(apiKey)
            \o "&language=" \o LanguageCode(args)

ConfigurationUrl == baseUrl \o "/configuration?api_key=" \o ToJSString(apiKey)

LanguagesUrl == baseUrl \o "/configuration/languages?api_key=" \o ToJSString(apiKey)

\* Fault: the success shape tested before the error shape.
FetchMoviesShapeFirst(url, data) ==
    IF isMoviesData(data) THEN Return(Get(data, "results"))
    ELSE IF isErrorResponse(data) THEN Throw(Error(APIErrorMessage(data)))
    ELSE LogThenThrow(<<url, data>>, Error("Unexpected response"))

\* fetchMovies from the point where response.json() has given data.
FetchMoviesTail(url, data) ==
    IF isErrorResponse(data) THEN Throw(Error(APIErrorMessage(data)))
    ELSE IF ~isMoviesData(data)
         THEN LogThenThrow(<<url, data>>, Error("Unexpected response"))
    ELSE Return(Get(data, "results"))

\* fetchConfiguration from the point where response.json() has given data.
FetchConfigurationTail(url, data) ==
    IF isErrorResponse(data) THEN Throw(Error(APIErrorMessage(data)))
    ELSE IF ~isMoviesAPIConfiguration(data) THEN Throw(Error("Unexpected response"))
    ELSE Return(data)

\* Fault: the last element is left out.
MapIsoCodesDroppingLast(data) ==
    Arr([i \in 1..(Len(data.v) - 1) |-> Get(data.v[i], "iso_639_1")])

\* data.map((item) => item.iso_639_1)
MapIsoCodes(data) == Arr([i \in 1..Len(data.v) |-> Get(data.v[i], "iso_639_1")])

\* fetchLanguageCodes from the point where response.json() has given data.
FetchLanguageCodesTail(url, data) ==
    IF isErrorResponse(data) THEN Throw(Error(APIErrorMessage(data)))
    ELSE IF ~isLanguageArray(data) THEN Throw(Error("Unexpected response"))
    ELSE Return(MapIsoCodes(data))

Endpoints == {"popular", "top_rated", "upcoming", "now_playing"}

UrlOf(fn, args) ==
    CASE fn = "fetchMovies"        -> MoviesUrl(args)
      [] fn = "fetchConfiguration" -> ConfigurationUrl
      [] OTHER                     -> LanguagesUrl

TailOf(fn, url, data) ==
    CASE fn = "fetchMovies"        -> FetchMoviesTail(url, data)
      [] fn = "fetchConfiguration" -> FetchConfigurationTail(url, data)
      [] OTHER                     -> FetchLanguageCodesTail(url, data)

---------------------------------------------------------------------------
(* The domain shapes the module declares (its exported types).             *)

\* x is an object whose properties named in names all hold a value of tag t.
HasFields(x, names, t) ==
    x.t = "obj" /\ \A k \in names : k \in DOMAIN x.v /\ x.v[k].t = t

\* x is an array of values of tag t.
IsArrayOf(x, t) == x.t = "arr" /\ \A i \in 1..Len(x.v) : x.v[i].t = t

\* x is an object whose properties named in names all hold arrays of tag t.
HasArrayFields(x, names, t) ==
    x.t = "obj" /\ \A k \in names : k \in DOMAIN x.v /\ IsArrayOf(x.v[k], t)

\* type Movie
IsMovie(x) ==
    /\ HasFields(x, {"adult", "video"}, "bool")
    /\ HasFields(x, {"id", "popularity", "vote_average", "vote_count"}, "num")
    /\ HasFields(x, {"backdrop_path", "original_language", "original_title",
                     "overview", "poster_path", "release_date", "title"}, "str")
    /\ HasArrayFields(x, {"genre_ids"}, "num")

\* type MoviesAPIConfiguration
IsImagesConfiguration(x) ==
    /\ HasFields(x, {"base_url", "secure_base_url"}, "str")
    /\ HasArrayFields(x, {"backdrop_sizes", "logo_sizes", "poster_sizes",
                          "profile_sizes", "still_sizes"}, "str")

IsConfiguration(x) ==
    x.t = "obj" /\ "images" \in DOMAIN x.v /\ IsImagesConfiguration(x.v["images"])

\* What each exported function promises to resolve to.
Conforms(fn, value) ==
    CASE fn = "fetchMovies"        ->
              value.t = "arr" /\ \A i \in 1..Len(value.v) : IsMovie(value.v[i])
      [] fn = "fetchConfiguration" -> IsConfiguration(value)
      [] OTHER                     -> IsArrayOf(value, "str")

---------------------------------------------------------------------------
(* The payloads the remote is made to answer with.                         *)

Movie(id, title) ==
    Obj([adult |-> Bool(FALSE), backdrop_path |-> Str("/b.jpg"),
         genre_ids |-> Arr(<<Num(18)>>), id |-> Num(id),
         original_language |-> Str("en"), original_title |-> Str(title),
         overview |-> Str(""), popularity |-> Num(9), poster_path |-> Str("/p.jpg"),
         release_date |-> Str("1999-03-31"), title |-> Str(title),
         video |-> Bool(FALSE), vote_average |-> Num(8), vote_count |-> Num(100)])

MovieA == Movie(603, "The Matrix")
MovieB == Movie(604, "Reloaded")

\* Elements of a results array: two movies, a number, an object with an id only.
MovieItems == {MovieA, MovieB, Num(7), Obj([id |-> Num(603)])}

Language(english, iso, name) ==
    Obj([english_name |-> Str(english), iso_639_1 |-> iso, name |-> Str(name)])

LanguageEn == Language("English", Str("en"), "English")
LanguageDe == Language("German", Str("de"), "Deutsch")

\* Elements of a language catalog: two languages, one without its name, one
\* whose code is null, and null.
LanguageItems ==
    {LanguageEn, LanguageDe,
     Obj([english_name |-> Str("French"), iso_639_1 |-> Str("fr")]),
     Language("Latin", Null, "Latina"), Null}

Sizes == Arr(<<Str("w500"), Str("original")>>)
Images ==
    Obj([base_url |-> Str("http://x/"), secure_base_url |-> Str("https://x/"),
         backdrop_sizes |-> Sizes, logo_sizes |-> Sizes, poster_sizes |-> Sizes,
         profile_sizes |-> Sizes, still_sizes |-> Sizes])

ImagesValues ==
    {Null, Str("x"), Arr(<<>>), Obj(NoProps), Obj([base_url |-> Str("http://x/")]),
     Obj([base_url |-> Num(5)]), Obj([secure_base_url |-> Str("https://x/")]), Images}

ResultsValues == {Null, Str("x")} \cup {Arr(s) : s \in SeqUpTo(MovieItems, MaxLen)}

\* The status fields of an object payload: none, one of the two, both (with
\* and without success), and both holding null.
StatusParts ==
    {NoProps,
     [status_code |-> Num(7)],
     [status_message |-> Str("Invalid API key")],
     [status_code |-> Num(7), status_message |-> Str("Invalid API key"),
      success |-> Bool(FALSE)],
     [status_code |-> Num(34), status_message |-> Str("Not found")],
     [status_code |-> Null, status_message |-> Null]}

\* No property, or property k with a value of S.
Optional(k, S) == {NoProps} \cup {k :> x : x \in S}

ObjectPayloads ==
    {Obj(st @@ rs @@ im) : st \in StatusParts,
                           rs \in Optional("results", ResultsValues),
                           im \in Optional("images", ImagesValues)}

ArrayPayloads == {Arr(s) : s \in SeqUpTo(LanguageItems, MaxLen)}

PrimitivePayloads == {Null, Bool(FALSE), Num(0), Num(7), Str(""), Str("x")}

Payloads == PrimitivePayloads \cup ArrayPayloads \cup ObjectPayloads

\* The responses of the mocked remote: a page of movies, an error envelope,
\* an empty object, a configuration.
MockMoviesPage ==
    Obj([page |-> Num(1), results |-> Arr(<<MovieA, MovieB>>),
         total_pages |-> Num(1), total_results |-> Num(2)])
MockError ==
    Obj([status_code |-> Num(7), status_message |-> Str("Invalid API key"),
         success |-> Bool(FALSE)])
MockPayloads == {MockMoviesPage, MockError, Obj(NoProps), Obj([images |-> Images])}

\* A response of the remote: a body that parses as JSON to data, or one that
\* does not parse. NoResponse stands for the response not yet received.
JsonBody(data) == [body |-> "json", data |-> data]
NotJson == [body |-> "text"]
NoResponse == [body |-> "none"]

\* The values the host may supply for VITE_MOVIES_API_KEY.
EnvValues == {Undefined, Null, Num(42), Str(""), Str("k1")}

LanguageCodes == {"en-US", "de-DE"}

\* The calls a caller of the module can make.
Invocations ==
    {<<"fetchMovies", <<e>>>> : e \in Endpoints}
    \cup {<<"fetchMovies", <<e, l>>>> : e \in Endpoints, l \in LanguageCodes}
    \cup {<<"fetchConfiguration", <<>>>>, <<"fetchLanguageCodes", <<>>>>}

\* The query functions of MoviesOverview.
MoviesOverviewQueries ==
    {<<"fetchMovies", <<"popular">>>>, <<"fetchMovies", <<"top_rated">>>>,
     <<"fetchMovies", <<"now_playing">>>>, <<"fetchMovies", <<"upcoming">>>>}

\* The configuration, fetched in parallel with the movies.
ConfigurationQuery == <<"fetchConfiguration", <<>>>>

\* The calls of the view layer.
ViewInvocations == MoviesOverviewQueries \cup {ConfigurationQuery}

\* The responses the remote may give under each host.
Server(h) ==
    IF h = "client" THEN {JsonBody(d) : d \in Payloads} \cup {NotJson}
    ELSE {JsonBody(d) : d \in MockPayloads} \cup {NotJson}

\* The calls the callers make under each host.
Invocable(h) == IF h = "client" THEN Invocations ELSE ViewInvocations

---------------------------------------------------------------------------
(* The state machine.                                                      *)

Pending == [kind |-> "pending"]

\* A caller with no call made yet.
Idle ==
    [pc |-> "idle", fn |-> "", args |-> <<>>, url |-> "", fetched |-> <<>>,
     response |-> NoResponse, data |-> Undefined, result |-> Pending]

\* The errors the host raises: fetch rejecting, response.json() rejecting.
TransportError == [name |-> "TypeError", message |-> "Failed to fetch"]
ParseError == [name |-> "SyntaxError", message |-> "Unexpected token < in JSON"]

\* What the caller's promise settles to.
Settled(outcome) ==
    IF outcome.kind = "return"
    THEN [kind |-> "return", value |-> outcome.value]
    ELSE [kind |-> "throw", error |-> outcome.error]

Rejected(error) == [kind |-> "throw", error |-> error]

InitCommon ==
    /\ envApiKey \in EnvValues
    /\ moduleState = "unloaded"
    /\ apiKey = Undefined
    /\ console = <<>>

\* One caller, any exported function, any payload.
Init ==
    /\ InitCommon
    /\ harness = "client"
    /\ calls = [c \in {1} |-> Idle]

\* The view layer: its calls in flight together against the mocked remote.
InitView ==
    /\ InitCommon
    /\ harness = "view"
    /\ calls = [c \in 1..MaxInFlight |-> Idle]

\* Evaluation of the module: the invariant on the key either throws, and
\* the module exports nothing, or lets apiKey be bound.
LoadModule ==
    /\ moduleState = "unloaded"
    /\ IF ApiKeyCondition(envApiKey)
       THEN moduleState' = "loaded" /\ apiKey' = envApiKey
       ELSE moduleState' = "failed" /\ apiKey' = apiKey
    /\ UNCHANGED <<envApiKey, harness, calls, console>>

\* A caller calls an exported function: the URL is built and fetch is
\* called with it; the function then awaits the response.
Call(c) ==
    /\ moduleState = "loaded"
    /\ calls[c].pc = "idle"
    /\ \E i \in Invocable(harness) :
          LET fn == i[1]
              args == i[2]
              url == UrlOf(fn, args)
          IN  calls' = [calls EXCEPT ![c] =
                           [@ EXCEPT !.pc = "fetch", !.fn = fn, !.args = args,
                                     !.url = url, !.fetched = Append(@, url)]]
    /\ UNCHANGED <<envApiKey, moduleState, apiKey, harness, console>>

\* fetch resolves with a response; the function awaits response.json().
FetchResolves(c) ==
    /\ calls[c].pc = "fetch"
    /\ \E r \in Server(harness) :
          calls' = [calls EXCEPT ![c] = [@ EXCEPT !.pc = "json", !.response = r]]
    /\ UNCHANGED <<envApiKey, moduleState, apiKey, harness, console>>

\* Fault: a rejected fetch is tried once more before the error is let through.
FetchRejectsAndRetries(c) ==
    /\ calls[c].pc = "fetch"
    /\ calls' = [calls EXCEPT ![c] =
                    IF Len(@.fetched) < 2
                    THEN [@ EXCEPT !.fetched = Append(@, calls[c].url)]
                    ELSE [@ EXCEPT !.pc = "settled",
                                   !.result = Rejected(TransportError)]]
    /\ UNCHANGED <<envApiKey, moduleState, apiKey, harness, console>>

\* fetch rejects (the transport failed): the await throws and nothing
\* catches it.
FetchRejects(c) ==
    /\ calls[c].pc = "fetch"
    /\ calls' = [calls EXCEPT ![c] =
                    [@ EXCEPT !.pc = "settled", !.result = Rejected(TransportError)]]
    /\ UNCHANGED <<envApiKey, moduleState, apiKey, harness, console>>

\* response.json() rejects (the body is not JSON): the await throws.
JsonRejects(c) ==
    /\ calls[c].pc = "json"
    /\ calls[c].response.body = "text"
    /\ calls' = [calls EXCEPT ![c] =
                    [@ EXCEPT !.pc = "settled", !.result = Rejected(ParseError)]]
    /\ UNCHANGED <<envApiKey, moduleState, apiKey, harness, console>>

\* The movies the calls have returned so far (used by the fault below).
RECURSIVE Accumulated(_)
Accumulated(cs) ==
    IF cs = {} THEN <<>>
    ELSE LET c == CHOOSE x \in cs : \A y \in cs : x <= y
             rest == Accumulated(cs \ {c})
         IN  IF calls[c].result.kind = "return" /\ calls[c].fn = "fetchMovies"
             THEN calls[c].result.value.v \o rest
             ELSE rest

\* Fault: fetchMovies keeps the movies of earlier calls in a list of the
\* module and returns that list with its own results added.
JsonResolvesAccumulating(c) ==
    /\ calls[c].pc = "json"
    /\ calls[c].response.body = "json"
    /\ LET data == calls[c].response.data
           outcome == TailOf(calls[c].fn, calls[c].url, data)
           result ==
               IF outcome.kind = "return" /\ calls[c].fn = "fetchMovies"
               THEN [kind |-> "return",
                     value |-> Arr(Accumulated(DOMAIN calls) \o outcome.value.v)]
               ELSE Settled(outcome)
       IN  /\ calls' = [calls EXCEPT ![c] =
                           [@ EXCEPT !.pc = "settled", !.data = data,
                                     !.result = result]]
           /\ console' = console \o outcome.log
    /\ UNCHANGED <<envApiKey, moduleState, apiKey, harness>>

\* response.json() resolves with data, and the rest of the function runs:
\* the classification, the log, the return or the throw.
JsonResolves(c) ==
    /\ calls[c].pc = "json"
    /\ calls[c].response.body = "json"
    /\ LET data == calls[c].response.data
           outcome == TailOf(calls[c].fn, calls[c].url, data)
       IN  /\ calls' = [calls EXCEPT ![c] =
                           [@ EXCEPT !.pc = "settled", !.data = data,
                                     !.result = Settled(outcome)]]
           /\ console' = console \o outcome.log
    /\ UNCHANGED <<envApiKey, moduleState, apiKey, harness>>

Next ==
    \/ LoadModule
    \/ \E c \in DOMAIN calls : Call(c)
    \/ \E c \in DOMAIN calls : FetchResolves(c)
    \/ \E c \in DOMAIN calls : FetchRejects(c)
    \/ \E c \in DOMAIN calls : JsonRejects(c)
    \/ \E c \in DOMAIN calls : JsonResolves(c)

Spec == Init /\ [][Next]_vars

ViewSpec == InitView /\ [][Next]_vars

---------------------------------------------------------------------------
(* Vocabulary of the properties, stated on the payload itself.             *)

\* The call has run to its end past response.json().
Classified(c) == calls[c].pc = "settled" /\ calls[c].response.body = "json"

Returned(c) == calls[c].pc = "settled" /\ calls[c].result.kind = "return"

Failed(c) == calls[c].pc = "settled" /\ calls[c].result.kind = "throw"

FailedWith(c, message) ==
    Failed(c) /\ calls[c].result.error = [name |-> "Error", message |-> message]

\* An error envelope: an object holding status_code and status_message.
IsEnvelope(d) == d.t = "obj" /\ {"status_code", "status_message"} \subseteq DOMAIN d.v

\* A listing: an object whose results is an array.
IsListing(d) == d.t = "obj" /\ "results" \in DOMAIN d.v /\ d.v["results"].t = "arr"

\* A configuration: an object whose images is an object whose base_url is a string.
HasImagesBaseUrl(d) ==
    /\ d.t = "obj" /\ "images" \in DOMAIN d.v
    /\ d.v["images"].t = "obj" /\ "base_url" \in DOMAIN d.v["images"].v
    /\ d.v["images"].v["base_url"].t = "str"

\* A language catalog: an array of objects, each holding the three names.
IsCatalog(d) ==
    /\ d.t = "arr"
    /\ \A i \in 1..Len(d.v) :
          /\ d.v[i].t = "obj"
          /\ {"english_name", "iso_639_1", "name"} \subseteq DOMAIN d.v[i].v

SuccessShape(fn, d) ==
    CASE fn = "fetchMovies"        -> IsListing(d)
      [] fn = "fetchConfiguration" -> HasImagesBaseUrl(d)
      [] OTHER                     -> IsCatalog(d)

---------------------------------------------------------------------------
(* Properties.                                                             *)

\* C1: in all three functions the payload is classified in a fixed order.
\* A payload with the error-envelope shape makes the call fail with the API
\* error (never "Unexpected response", never a value), also when it has the
\* success shape as well; otherwise a payload without the success shape makes
\* the call fail with "Unexpected response"; otherwise the call returns.
ClassificationOrder ==
    \A c \in DOMAIN calls :
        Classified(c) =>
            LET d == calls[c].data
            IN  /\ IsEnvelope(d) =>
                      /\ Failed(c)
                      /\ ~FailedWith(c, "Unexpected response")
                      /\ Contains(calls[c].result.error.message, ": ")
                /\ (~IsEnvelope(d) /\ ~SuccessShape(calls[c].fn, d)) =>
                      FailedWith(c, "Unexpected response")
                /\ (~IsEnvelope(d) /\ SuccessShape(calls[c].fn, d)) => Returned(c)

\* A fetchMovies call whose payload is both an error envelope and a listing
\* has failed with the API error.
ClassificationOrderWitness ==
    \E c \in DOMAIN calls :
        /\ Classified(c)
        /\ calls[c].fn = "fetchMovies"
        /\ calls[c].data =
              Obj([status_code |-> Num(7), status_message |-> Str("Invalid API key"),
                   success |-> Bool(FALSE), results |-> Arr(<<MovieA>>)])
        /\ FailedWith(c, "7: Invalid API key")

\* C2: fetchMovies requests baseUrl/movie/{endpoint}?api_key={key}&language=
\* {languageCode}, with en-US when no language is passed, and a payload that
\* is a listing and no error envelope makes it return exactly the results
\* array it received: same elements, same length, same order.
MoviesRequestAndResult ==
    \A c \in DOMAIN calls :
        (calls[c].fn = "fetchMovies" /\ calls[c].pc # "idle") =>
            LET endpoint == calls[c].args[1]
                language == IF Len(calls[c].args) = 1 THEN "en-US" ELSE calls[c].args[2]
                d == calls[c].data
            IN  /\ endpoint \in Endpoints
                /\ envApiKey.t = "str"
                /\ calls[c].fetched =
                      <<"https://api.themoviedb.org/3/movie/" \o endpoint
                        \o "?api_key=" \o envApiKey.v \o "&language=" \o language>>
                /\ (Classified(c) /\ IsListing(d) /\ ~IsEnvelope(d)) =>
                      /\ Returned(c)
                      /\ calls[c].result.value = d.v["results"]

\* fetchMovies("top_rated", "de-DE") has returned a two-element results
\* array that is not in sorted order, as it received it.
MoviesRequestAndResultWitness ==
    \E c \in DOMAIN calls :
        /\ calls[c].fn = "fetchMovies"
        /\ calls[c].args = <<"top_rated", "de-DE">>
        /\ calls[c].fetched =
              <<"https://api.themoviedb.org/3/movie/top_rated?api_key=k1&language=de-DE">>
        /\ Classified(c)
        /\ calls[c].data = Obj([results |-> Arr(<<MovieB, MovieA>>)])
        /\ Returned(c)
        /\ calls[c].result.value = Arr(<<MovieB, MovieA>>)

\* C4: an error envelope makes fetchMovies and fetchConfiguration (and
\* fetchLanguageCodes) fail with an error whose message holds the remote
\* status code and the remote status message; for a numeric code and a string
\* message it is "<code>: <message>". No value is returned.
ErrorEnvelopeCarried ==
    \A c \in DOMAIN calls :
        (Classified(c) /\ IsEnvelope(calls[c].data)) =>
            LET code == calls[c].data.v["status_code"]
                text == calls[c].data.v["status_message"]
            IN  /\ Failed(c)
                /\ calls[c].result.error.name = "Error"
                /\ Contains(calls[c].result.error.message, ToJSString(code))
                /\ Contains(calls[c].result.error.message, ToJSString(text))
                /\ (code.t = "num" /\ text.t = "str") =>
                      calls[c].result.error.message = ToString(code.v) \o ": " \o text.v

\* fetchConfiguration has failed with "7: Invalid API key" on the envelope
\* {status_code: 7, status_message: "Invalid API key", success: false}.
ErrorEnvelopeCarriedWitness ==
    \E c \in DOMAIN calls :
        /\ Classified(c)
        /\ calls[c].fn = "fetchConfiguration"
        /\ calls[c].data = MockError
        /\ FailedWith(c, "7: Invalid API key")

\* C3: every value an exported function returns has been validated against
\* the shape the function declares: fetchMovies returns Movie records,
\* fetchConfiguration an ImagesConfiguration, fetchLanguageCodes the codes of
\* language objects; a call returns such a value or fails.
OnlyValidatedValuesReturned ==
    \A c \in DOMAIN calls :
        Returned(c) => Conforms(calls[c].fn, calls[c].result.value)

\* C5: whenever a call has failed with "Unexpected response", console.error
\* has printed the call's URL and payload.
UnexpectedResponseIsLogged ==
    \A c \in DOMAIN calls :
        (Classified(c) /\ FailedWith(c, "Unexpected response")) =>
            \E i \in 1..Len(console) : console[i] = <<calls[c].url, calls[c].data>>

\* C6: when the key the host supplies is absent or not a string, the module
\* does not load: no exported function has been called and no request has
\* been issued. The key the module binds is the string supplied.
NoCallWithoutApiKey ==
    /\ envApiKey.t # "str" =>
          /\ moduleState # "loaded"
          /\ \A c \in DOMAIN calls : calls[c].pc = "idle" /\ calls[c].fetched = <<>>
    /\ moduleState = "failed" => \A c \in DOMAIN calls : calls[c] = Idle
    /\ moduleState = "loaded" => apiKey = envApiKey /\ envApiKey.t = "str"
    /\ (\E c \in DOMAIN calls : calls[c].pc # "idle") => moduleState = "loaded"

\* The module has failed to load on a key that is a number.
NoCallWithoutApiKeyWitness ==
    /\ envApiKey = Num(42)
    /\ moduleState = "failed"
    /\ \A c \in DOMAIN calls : calls[c] = Idle

\* C7 as stated: fetchConfiguration returns the payload unchanged when it is
\* no error envelope and has an images object with a string base_url, and for
\* every payload without such an images object it fails with "Unexpected
\* response".
ConfigurationAsStated ==
    \A c \in DOMAIN calls :
        (Classified(c) /\ calls[c].fn = "fetchConfiguration") =>
            LET d == calls[c].data
            IN  /\ (~IsEnvelope(d) /\ HasImagesBaseUrl(d)) =>
                      Returned(c) /\ calls[c].result.value = d
                /\ ~HasImagesBaseUrl(d) => FailedWith(c, "Unexpected response")

\* C7, amended: fetchConfiguration returns the payload unchanged when it is
\* no error envelope and has an images object with a string base_url, and for
\* every payload that is no error envelope and has no such images object it
\* fails with "Unexpected response".
ConfigurationValidated ==
    \A c \in DOMAIN calls :
        (Classified(c) /\ calls[c].fn = "fetchConfiguration") =>
            LET d == calls[c].data
            IN  /\ (~IsEnvelope(d) /\ HasImagesBaseUrl(d)) =>
                      Returned(c) /\ calls[c].result.value = d
                /\ (~IsEnvelope(d) /\ ~HasImagesBaseUrl(d)) =>
                      FailedWith(c, "Unexpected response")

\* fetchConfiguration has failed with "Unexpected response" on an images
\* object whose base_url is a number.
ConfigurationValidatedWitness ==
    \E c \in DOMAIN calls :
        /\ Classified(c)
        /\ calls[c].fn = "fetchConfiguration"
        /\ calls[c].data = Obj([images |-> Obj([base_url |-> Num(5)])])
        /\ FailedWith(c, "Unexpected response")

\* C8 as stated: fetchLanguageCodes returns a value only for a catalog (an
\* array of objects each holding english_name, iso_639_1 and name), the value
\* being the iso_639_1 of each element in order, and for every non-array
\* payload and every array with an element lacking a field it fails with
\* "Unexpected response".
LanguageCodesAsStated ==
    \A c \in DOMAIN calls :
        (Classified(c) /\ calls[c].fn = "fetchLanguageCodes") =>
            LET d == calls[c].data
            IN  /\ Returned(c) => IsCatalog(d)
                /\ Returned(c) =>
                      /\ calls[c].result.value.t = "arr"
                      /\ Len(calls[c].result.value.v) = Len(d.v)
                      /\ \A i \in 1..Len(d.v) :
                            calls[c].result.value.v[i] = d.v[i].v["iso_639_1"]
                /\ ~IsCatalog(d) => FailedWith(c, "Unexpected response")

\* C8, amended: as stated, but a payload that is no catalog makes the call
\* fail with "Unexpected response" only when it is no error envelope; every
\* catalog is accepted.
LanguageCodesMapped ==
    \A c \in DOMAIN calls :
        (Classified(c) /\ calls[c].fn = "fetchLanguageCodes") =>
            LET d == calls[c].data
            IN  /\ Returned(c) <=> IsCatalog(d)
                /\ Returned(c) =>
                      /\ calls[c].result.value.t = "arr"
                      /\ Len(calls[c].result.value.v) = Len(d.v)
                      /\ \A i \in 1..Len(d.v) :
                            calls[c].result.value.v[i] = d.v[i].v["iso_639_1"]
                /\ (~IsCatalog(d) /\ ~IsEnvelope(d)) =>
                      FailedWith(c, "Unexpected response")

\* fetchLanguageCodes has returned <<"de", "en">> for the catalog of German
\* and English, in that order.
LanguageCodesMappedWitness ==
    \E c \in DOMAIN calls :
        /\ Classified(c)
        /\ calls[c].fn = "fetchLanguageCodes"
        /\ calls[c].data = Arr(<<LanguageDe, LanguageEn>>)
        /\ Returned(c)
        /\ calls[c].result.value = Arr(<<Str("de"), Str("en")>>)

\* C9: a call issues exactly one request, whatever its outcome. A transport
\* failure or a body that does not parse settles the call with that very
\* error; an error envelope or a payload of the wrong shape settles it with
\* an error; no failure is answered with a value.
OneRequestPerCall ==
    \A c \in DOMAIN calls :
        /\ calls[c].pc = "idle" => calls[c].fetched = <<>>
        /\ calls[c].pc # "idle" => calls[c].fetched = <<calls[c].url>>
        /\ calls[c].pc = "settled" =>
              /\ calls[c].response.body = "none" =>
                    calls[c].result = [kind |-> "throw", error |-> TransportError]
              /\ calls[c].response.body = "text" =>
                    calls[c].result = [kind |-> "throw", error |-> ParseError]
              /\ (calls[c].response.body = "json"
                    /\ (IsEnvelope(calls[c].data)
                          \/ ~SuccessShape(calls[c].fn, calls[c].data))) =>
                    Failed(c)

\* A call has settled with the transport's error after its one request.
OneRequestPerCallWitness ==
    \E c \in DOMAIN calls :
        /\ calls[c].pc = "settled"
        /\ calls[c].response.body = "none"
        /\ Len(calls[c].fetched) = 1
        /\ calls[c].result = [kind |-> "throw", error |-> TransportError]

\* Two calls of the same function with the same arguments that received the
\* same response have the same result.
SameInputsSameResult ==
    \A c1, c2 \in DOMAIN calls :
        (/\ calls[c1].pc = "settled" /\ calls[c2].pc = "settled"
         /\ calls[c1].fn = calls[c2].fn /\ calls[c1].args = calls[c2].args
         /\ calls[c1].response = calls[c2].response
         /\ calls[c1].response.body # "none") =>
            calls[c1].result = calls[c2].result

\* A step changes the record of one call only, and never that of a call that
\* has settled.
OneCallPerStep ==
    \A c \in DOMAIN calls :
        calls'[c] # calls[c] =>
            /\ calls[c].pc # "settled"
            /\ \A o \in DOMAIN calls \ {c} : calls'[o] = calls[o]

===========================================================================
